---- MODULE Spec2Model ----
(***************************************************************************)
(* The hash:net,port,net set type of DPVS (src/ipset/ipset_hash_netportnet.c)*)
(* as a state machine: one set, the control-plane handler of its family     *)
(* (hash_netportnet_adt4 / hash_netportnet_adt6) and the packet-path test   *)
(* (hash_netportnet_test).  The generic hash core (hash_adtfn), the prefix  *)
(* helpers of ipset/pfxlen.h and the netmask callbacks are not part of the  *)
(* two source files; they are modelled after the design document.           *)
(*                                                                          *)
(* Integer widths are scaled: uint32_t addresses have AddrBits bits,        *)
(* uint16_t ports PortBits bits, union inet_addr AddrBits + RestBits bits.  *)
(***************************************************************************)
EXTENDS Integers, Sequences, FiniteSets, TLC

AddrBits == 2
RestBits == 1
PortBits == 2
MaxProto == 1
MaxReqs == 2
NumLcores == 2

AddrSpace == 2 ^ AddrBits
MaxAddr == AddrSpace - 1
RestSpace == 2 ^ RestBits
Addr6Bits == AddrBits + RestBits
Addr6Space == 2 ^ Addr6Bits
PortSpace == 2 ^ PortBits
MaxPort == PortSpace - 1

AF_INET == "AF_INET"
AF_INET6 == "AF_INET6"
IPSET_OP_ADD == "IPSET_OP_ADD"
IPSET_OP_DEL == "IPSET_OP_DEL"
IPSET_OP_TEST == "IPSET_OP_TEST"

EDPVS_OK == "EDPVS_OK"
EDPVS_INVAL == "EDPVS_INVAL"
EDPVS_EXIST == "EDPVS_EXIST"
EDPVS_NOTEXIST == "EDPVS_NOTEXIST"
\* the handler never returns: its port loop repeats with nothing left to change
NO_RETURN == "NO_RETURN"

COMPARE_INEQUAL == "COMPARE_INEQUAL"
COMPARE_EQUAL_ACCEPT == "COMPARE_EQUAL_ACCEPT"
COMPARE_EQUAL_REJECT == "COMPARE_EQUAL_REJECT"

\* tri-state result of the element test operation
ACCEPT == "ACCEPT"
REJECT == "REJECT"
NOT_FOUND == "NOT_FOUND"

\* F applied to the value of v, v being evaluated once
Bind(v, F(_)) == CHOOSE y \in {F(x) : x \in {v}} : TRUE

----------------------------------------------------------------------------
(* Byte order.  A byte of the scaled integers is one bit, so the byte swap  *)
(* of htonl/htons on a little-endian build is the reversal of the bits.     *)
RECURSIVE Swap(_, _)
Swap(x, bits) ==
    IF bits = 0 THEN 0
    ELSE (x % 2) * 2 ^ (bits - 1) + Swap(x \div 2, bits - 1)

htonl(x) == Swap(x, AddrBits)
ntohl(x) == Swap(x, AddrBits)
htons(x) == Swap(x, PortBits)
ntohs(x) == Swap(x, PortBits)

(* union inet_addr: in.s_addr overlays the first bytes of in6.  `in` is the *)
(* raw (network order) value of in.s_addr, `rest` the bytes after it.       *)
InetAddr == [in : 0 .. MaxAddr, rest : 0 .. RestSpace - 1]
ZeroAddr == [in |-> 0, rest |-> 0]

\* the union holding the IPv4 host-order address a, other bytes zero
U4(a) == [in |-> htonl(a), rest |-> 0]
\* the union holding the IPv6 address whose bits, first to last, are v
U6(v) == [in |-> htonl(v \div RestSpace), rest |-> v % RestSpace]
\* the bits of the union read as an IPv6 address
In6(u) == ntohl(u.in) * RestSpace + u.rest

\* elem_t after memset(&e, 0, sizeof(e))
ZeroElem ==
    [ip1 |-> ZeroAddr, cidr1 |-> 0, ip2 |-> ZeroAddr, cidr2 |-> 0,
     proto |-> 0, port |-> 0, comment |-> "", nomatch |-> FALSE]

\* the bytes before offsetof(elem_t, comment)
KeyRegion(e) == <<e.ip1, e.cidr1, e.ip2, e.cidr2, e.proto, e.port>>

\* memcmp's result taken the wrong way round
data_equal_inverted(elem1, elem2) ==
    IF KeyRegion(elem1) = KeyRegion(elem2) THEN COMPARE_INEQUAL
    ELSE IF elem2.nomatch THEN COMPARE_EQUAL_REJECT
    ELSE COMPARE_EQUAL_ACCEPT

\* the compare taken over the whole record, comment and nomatch included
data_equal_whole_record(elem1, elem2) ==
    IF elem1 # elem2 THEN COMPARE_INEQUAL
    ELSE IF elem2.nomatch THEN COMPARE_EQUAL_REJECT
    ELSE COMPARE_EQUAL_ACCEPT

\* the nomatch flag of the stored element not looked at
data_equal_no_reject(elem1, elem2) ==
    IF KeyRegion(elem1) # KeyRegion(elem2) THEN COMPARE_INEQUAL
    ELSE COMPARE_EQUAL_ACCEPT

hash_netportnet_data_equal(elem1, elem2) ==
    IF KeyRegion(elem1) # KeyRegion(elem2) THEN COMPARE_INEQUAL
    ELSE IF elem2.nomatch THEN COMPARE_EQUAL_REJECT
    ELSE COMPARE_EQUAL_ACCEPT

----------------------------------------------------------------------------
(* hash_netportnet_hashkey4.  The uint32_t of the hash holds the port in    *)
(* its upper half and the two uint8_t prefix lengths in its lower half, so  *)
(* the scaled word has PortBits + 2 * ByteBits bits.                        *)
ByteBits == AddrBits
HashBits == PortBits + 2 * ByteBits
HashSpace == 2 ^ HashBits

RECURSIVE BitAnd(_, _)
BitAnd(x, y) ==
    IF x = 0 \/ y = 0 THEN 0
    ELSE (x % 2) * (y % 2) + 2 * BitAnd(x \div 2, y \div 2)

RECURSIVE BitOr(_, _)
BitOr(x, y) ==
    IF x = 0 THEN y
    ELSE IF y = 0 THEN x
    ELSE (IF x % 2 = 1 \/ y % 2 = 1 THEN 1 ELSE 0) + 2 * BitOr(x \div 2, y \div 2)

\* the hash without "& mask"
hashkey4_unmasked(data, len, mask) ==
    (data.ip1.in * 31 + data.ip2.in * 31
        + BitOr((data.port * 2 ^ (2 * ByteBits)) % HashSpace,
                BitOr((data.cidr1 * 2 ^ ByteBits) % HashSpace, data.cidr2))) % HashSpace

hash_netportnet_hashkey4(data, len, mask) ==
    BitAnd((data.ip1.in * 31 + data.ip2.in * 31
               + BitOr((data.port * 2 ^ (2 * ByteBits)) % HashSpace,
                       BitOr((data.cidr1 * 2 ^ ByteBits) % HashSpace, data.cidr2)))
           % HashSpace,
           mask)

----------------------------------------------------------------------------
(* ipset/pfxlen.h *)

\* the host-order address with the bits after the first cidr ones cleared
MaskTo(a, cidr, bits) ==
    IF cidr >= bits THEN a ELSE a - (a % 2 ^ (bits - cidr))

\* ip_set_mask_from_to(from, to, cidr): the block of from at that length
ip_set_mask_from_to(from, cidr) ==
    LET f == MaskTo(from, cidr, AddrBits)
    IN  [from |-> f, to |-> f + 2 ^ (AddrBits - cidr) - 1]

\* lengths whose aligned block starting at from lies within [from, to]
FitLens(from, to) ==
    {k \in 0 .. AddrBits :
        /\ from % 2 ^ (AddrBits - k) = 0
        /\ from + 2 ^ (AddrBits - k) - 1 <= to}

(* ip_set_range_to_cidr(from, to, &cidr): the largest aligned block that    *)
(* starts at from and ends no later than to; returns its last address.      *)
(* With no such block (from > to) the single address from is the block.     *)
ip_set_range_to_cidr(from, to) ==
    LET fit == FitLens(from, to)
        k == IF fit = {} THEN AddrBits
             ELSE CHOOSE c \in fit : \A d \in fit : c <= d
    IN  [last |-> from + 2 ^ (AddrBits - k) - 1, cidr |-> k]

\* ip6_netmask(addr, plen)
ip6_netmask(u, plen) == U6(MaskTo(In6(u), plen, Addr6Bits))

\* hash_data_netmask4 / hash_data_netmask6: the probe masked to (l1, l2)
hash_data_netmask4(e, l1, l2) ==
    [e EXCEPT !.ip1.in = htonl(MaskTo(ntohl(e.ip1.in), l1, AddrBits)),
              !.cidr1 = l1,
              !.ip2.in = htonl(MaskTo(ntohl(e.ip2.in), l2, AddrBits)),
              !.cidr2 = l2]

hash_data_netmask6(e, l1, l2) ==
    [e EXCEPT !.ip1 = ip6_netmask(e.ip1, l1), !.cidr1 = l1,
              !.ip2 = ip6_netmask(e.ip2, l2), !.cidr2 = l2]

do_netmask(family, e, l1, l2) ==
    IF family = AF_INET THEN hash_data_netmask4(e, l1, l2)
    ELSE hash_data_netmask6(e, l1, l2)

----------------------------------------------------------------------------
(* The hash core: element operations on the stored records.  A set is      *)
(* [family, comment, elems], elems the records in the order they were      *)
(* inserted; an operation returns [elems, ret].                            *)

\* the places of the stored records that compare equal to e
Matches(elems, e) ==
    {i \in 1 .. Len(elems) : hash_netportnet_data_equal(e, elems[i]) # COMPARE_INEQUAL}

hash_add(set, e, flag) ==
    Bind(Matches(set.elems, e), LAMBDA m :
        IF m = {} THEN [elems |-> Append(set.elems, e), ret |-> EDPVS_OK]
        ELSE IF flag
        THEN [elems |-> [i \in 1 .. Len(set.elems) |->
                            IF i \in m THEN e ELSE set.elems[i]],
              ret |-> EDPVS_OK]
        ELSE [elems |-> set.elems, ret |-> EDPVS_EXIST])

RECURSIVE Without(_, _, _)
Without(elems, m, i) ==
    IF i > Len(elems) THEN <<>>
    ELSE (IF i \in m THEN <<>> ELSE <<elems[i]>>) \o Without(elems, m, i + 1)

hash_del(set, e, flag) ==
    Bind(Matches(set.elems, e), LAMBDA m :
        IF m = {} THEN [elems |-> set.elems, ret |-> EDPVS_NOTEXIST]
        ELSE [elems |-> Without(set.elems, m, 1), ret |-> EDPVS_OK])

\* the prefix-length pairs present among the stored elements
MaskHistogram(elems) == {<<elems[i].cidr1, elems[i].cidr2>> : i \in 1 .. Len(elems)}

\* p is tried before q: most specific first
MoreSpecific(p, q) == p[1] > q[1] \/ (p[1] = q[1] /\ p[2] > q[2])

RECURSIVE SortPairs(_)
SortPairs(ps) ==
    IF ps = {} THEN <<>>
    ELSE LET top == CHOOSE p \in ps : \A q \in ps \ {p} : MoreSpecific(p, q)
         IN  <<top>> \o SortPairs(ps \ {top})

Reverse(s) == [i \in 1 .. Len(s) |-> s[Len(s) + 1 - i]]

\* one probe of the table at one length pair
ProbeAt(set, e, pair) ==
    Bind(do_netmask(set.family, e, pair[1], pair[2]), LAMBDA probe :
        Bind(Matches(set.elems, probe), LAMBDA m :
            IF m = {} THEN COMPARE_INEQUAL
            ELSE hash_netportnet_data_equal(
                     probe, set.elems[CHOOSE i \in m : \A k \in m : i <= k])))

(* the lookup over the length pairs in the given order: a REJECT is        *)
(* returned at once, the first ACCEPT is kept for the end                  *)
RECURSIVE LookupIn(_, _, _, _)
LookupIn(set, e, pairs, found) ==
    IF pairs = <<>> THEN found
    ELSE Bind(ProbeAt(set, e, Head(pairs)), LAMBDA c :
             IF c = COMPARE_EQUAL_REJECT THEN REJECT
             ELSE LookupIn(set, e, Tail(pairs),
                           IF c = COMPARE_EQUAL_ACCEPT /\ found = NOT_FOUND
                           THEN ACCEPT ELSE found))

hash_test(set, e, flag) ==
    Bind(SortPairs(MaskHistogram(set.elems)), LAMBDA pairs :
        [elems |-> set.elems, ret |-> LookupIn(set, e, pairs, NOT_FOUND)])

\* set->type->adtfn[op]
adtfn(op, set, e, flag) ==
    IF op = IPSET_OP_ADD THEN hash_add(set, e, flag)
    ELSE IF op = IPSET_OP_DEL THEN hash_del(set, e, flag)
    ELSE hash_test(set, e, flag)

----------------------------------------------------------------------------
(* The control-plane handlers.  A run is [elems, ret, nops]: the stored    *)
(* elements, the status so far and the number of element operations called.*)

Step(set, run, op, e, flag) ==
    Bind(<<[set EXCEPT !.elems = run.elems], e>>, LAMBDA a :
        Bind(adtfn(op, a[1], a[2], flag), LAMBDA r :
            [elems |-> r.elems, ret |-> r.ret, nops |-> run.nops + 1]))

(* for (port = min_port; port >= min_port && port <= max_port; port++)     *)
(* with a uint16_t counter.  mark is the stored elements when the counter  *)
(* last held min_port: the counter coming back to min_port with the same   *)
(* stored elements repeats the same pass for ever.                         *)
RECURSIVE PortLoop(_, _, _, _, _, _, _)
PortLoop(set, run, op, e, param, port, mark) ==
    IF ~(port >= param.min_port /\ port <= param.max_port) THEN run
    ELSE Bind(Step(set, run, op, [e EXCEPT !.port = htons(port)], param.flag),
              LAMBDA run2 :
         IF run2.ret # EDPVS_OK THEN run2
         ELSE IF (port + 1) % PortSpace = param.min_port
         THEN IF run2.elems = mark THEN [run2 EXCEPT !.ret = NO_RETURN]
              ELSE PortLoop(set, run2, op, e, param, (port + 1) % PortSpace, run2.elems)
         ELSE PortLoop(set, run2, op, e, param, (port + 1) % PortSpace, mark))

\* the inner loop ending on while (++ip2 < ip2_to)
RECURSIVE InnerLoop_preincrement(_, _, _, _, _, _, _)
InnerLoop_preincrement(set, run, op, e, param, ip2, ip2_to) ==
    Bind(ip_set_range_to_cidr(ip2, ip2_to), LAMBDA c :
    Bind([e EXCEPT !.ip2.in = htonl(ip2), !.cidr2 = c.cidr], LAMBDA e2 :
    Bind(PortLoop(set, run, op, e2, param, param.min_port, run.elems), LAMBDA run2 :
        IF run2.ret # EDPVS_OK THEN run2
        ELSE IF (c.last + 1) % AddrSpace < ip2_to
        THEN InnerLoop_preincrement(set, run2, op, e2, param,
                                    (c.last + 1) % AddrSpace, ip2_to)
        ELSE run2)))

\* do { ... } while (ip2++ < ip2_to);
RECURSIVE InnerLoop(_, _, _, _, _, _, _)
InnerLoop(set, run, op, e, param, ip2, ip2_to) ==
    Bind(ip_set_range_to_cidr(ip2, ip2_to), LAMBDA c :
    Bind([e EXCEPT !.ip2.in = htonl(ip2), !.cidr2 = c.cidr], LAMBDA e2 :
    Bind(PortLoop(set, run, op, e2, param, param.min_port, run.elems), LAMBDA run2 :
        IF run2.ret # EDPVS_OK THEN run2
        ELSE IF c.last < ip2_to
        THEN InnerLoop(set, run2, op, e2, param, (c.last + 1) % AddrSpace, ip2_to)
        ELSE run2)))

\* the outer loop ending on while (ip1++ <= ip1_to): it goes on after the
\* block that ends at ip1_to.  After the last address the counter is 0 and
\* the enumeration restarts; under the replace policy no Add fails, and the
\* loop never ends.
RECURSIVE OuterLoop_inclusive(_, _, _, _, _, _, _, _, _)
OuterLoop_inclusive(set, run, op, e, param, ip1, ip1_to, ip2_from, ip2_to) ==
    Bind(ip_set_range_to_cidr(ip1, ip1_to), LAMBDA c :
    Bind([e EXCEPT !.ip1.in = htonl(ip1), !.cidr1 = c.cidr], LAMBDA e1 :
    Bind(InnerLoop(set, run, op, e1, param, ip2_from, ip2_to), LAMBDA run2 :
        IF run2.ret # EDPVS_OK THEN run2
        ELSE IF c.last <= ip1_to
        THEN IF c.last = MaxAddr /\ op = IPSET_OP_ADD /\ param.flag
             THEN [run2 EXCEPT !.ret = NO_RETURN]
             ELSE OuterLoop_inclusive(set, run2, op, e1, param,
                                      (c.last + 1) % AddrSpace, ip1_to, ip2_from, ip2_to)
        ELSE run2)))

\* the outer loop without ip2 = ip2_from: the inner loop goes on from the
\* address after ip2_to
RECURSIVE OuterLoop_no_restart(_, _, _, _, _, _, _, _, _)
OuterLoop_no_restart(set, run, op, e, param, ip1, ip1_to, ip2_from, ip2_to) ==
    Bind(ip_set_range_to_cidr(ip1, ip1_to), LAMBDA c :
    Bind([e EXCEPT !.ip1.in = htonl(ip1), !.cidr1 = c.cidr], LAMBDA e1 :
    Bind(InnerLoop(set, run, op, e1, param, ip2_from, ip2_to), LAMBDA run2 :
        IF run2.ret # EDPVS_OK THEN run2
        ELSE IF c.last < ip1_to
        THEN OuterLoop_no_restart(set, run2, op, e1, param, (c.last + 1) % AddrSpace,
                                  ip1_to, (ip2_to + 1) % AddrSpace, ip2_to)
        ELSE run2)))

\* do { ... ip2 = ip2_from; } while (ip1++ < ip1_to);
RECURSIVE OuterLoop(_, _, _, _, _, _, _, _, _)
OuterLoop(set, run, op, e, param, ip1, ip1_to, ip2_from, ip2_to) ==
    Bind(ip_set_range_to_cidr(ip1, ip1_to), LAMBDA c :
    Bind([e EXCEPT !.ip1.in = htonl(ip1), !.cidr1 = c.cidr], LAMBDA e1 :
    Bind(InnerLoop(set, run, op, e1, param, ip2_from, ip2_to), LAMBDA run2 :
        IF run2.ret # EDPVS_OK THEN run2
        ELSE IF c.last < ip1_to
        THEN OuterLoop(set, run2, op, e1, param, (c.last + 1) % AddrSpace,
                       ip1_to, ip2_from, ip2_to)
        ELSE run2)))

\* the element the handlers fill in before the loops
WithAddOptions(set, e, param) ==
    IF param.opcode = IPSET_OP_ADD
    THEN [e EXCEPT !.comment = IF set.comment THEN param.comment ELSE "",
                   !.nomatch = param.nomatch]
    ELSE e

Run0(set) == [elems |-> set.elems, ret |-> EDPVS_OK, nops |-> 0]

\* hash_netportnet_adt4 after its family check
Adt4Body(op, set, param) ==
    LET e0 == [ZeroElem EXCEPT !.cidr1 = param.cidr, !.cidr2 = param.cidr2,
                               !.proto = param.proto]
    IN  IF op = IPSET_OP_TEST
        THEN Step(set, Run0(set), op,
                  [e0 EXCEPT !.ip1.in = param.min_addr.in,
                             !.ip2.in = param.min_addr2.in,
                             !.port = htons(param.min_port)], FALSE)
        ELSE LET e == WithAddOptions(set, e0, param)
                 ip1 == ntohl(param.min_addr.in)
                 ip2 == ntohl(param.min_addr2.in)
                 r1 == IF e.cidr1 # 0 THEN ip_set_mask_from_to(ip1, e.cidr1)
                       ELSE [from |-> ip1, to |-> ntohl(param.max_addr.in)]
                 r2 == IF e.cidr2 # 0 THEN ip_set_mask_from_to(ip2, e.cidr2)
                       ELSE [from |-> ip2, to |-> ntohl(param.max_addr2.in)]
             IN  OuterLoop(set, Run0(set), op, e, param, r1.from, r1.to, r2.from, r2.to)

\* the handler without its family check
adt4_unchecked_family(op, set, param) == Adt4Body(op, set, param)

hash_netportnet_adt4(op, set, param) ==
    IF set.family # param.family THEN [Run0(set) EXCEPT !.ret = EDPVS_INVAL]
    ELSE Adt4Body(op, set, param)

\* hash_netportnet_adt6 after its family check
Adt6Body(op, set, param) ==
    LET e0 == [ZeroElem EXCEPT !.ip1 = param.min_addr, !.ip2 = param.min_addr2,
                               !.cidr1 = param.cidr, !.cidr2 = param.cidr2,
                               !.proto = param.proto]
    IN  IF param.opcode = IPSET_OP_TEST
        THEN Step(set, Run0(set), op, [e0 EXCEPT !.port = htons(param.min_port)], FALSE)
        ELSE LET e == WithAddOptions(set, e0, param)
                 m1 == IF e.cidr1 # 0 THEN [e EXCEPT !.ip1 = ip6_netmask(e.ip1, e.cidr1)]
                       ELSE e
                 m2 == IF m1.cidr2 # 0
                       THEN [m1 EXCEPT !.ip2 = ip6_netmask(m1.ip2, m1.cidr2)]
                       ELSE m1
             IN  PortLoop(set, Run0(set), op, m2, param, param.min_port, set.elems)

hash_netportnet_adt6(op, set, param) ==
    IF set.family # param.family THEN [Run0(set) EXCEPT !.ret = EDPVS_INVAL]
    ELSE Adt6Body(op, set, param)

(* hash_netportnet_test: the probe built from a packet.  p.ports is the    *)
(* pair of 16-bit values mbuf_header_pointer yields, as they are on the    *)
(* wire.                                                                    *)
hash_netportnet_test(set, p) ==
    LET e == [ZeroElem EXCEPT !.ip1 = p.saddr, !.ip2 = p.daddr, !.port = p.ports[1]]
    IN  adtfn(IPSET_OP_TEST, set, e, FALSE).ret

----------------------------------------------------------------------------
(* keepalived's configuration parser: the handlers of the ip_family and    *)
(* persistence_granularity keywords of a virtual_server block.  A handler  *)
(* takes the virtual server and the parser as they are and gives them as   *)
(* it leaves them, with what it reported.                                  *)

AF_UNSPEC == "AF_UNSPEC"

IPVS_SVC_PERSISTENT_TIMEOUT == 360

\* the largest IPv6 persistence granularity (128 for the 128-bit address)
MaxGranularity6 == Addr6Bits

\* the virtual server as vs_handler's alloc_vs leaves it
alloc_vs(af) ==
    [af |-> af, persistence_granularity |-> 0, persistence_timeout |-> 0]

Handled(v, p, report) == [vs |-> v, parser |-> p, report |-> report]

\* ip_family_handler without the conflict test
ip_family_handler_overwrite(v, p, strvec) ==
    IF strvec.word \notin {"inet", "inet6"}
    THEN Handled(v, p, "unknown address family")
    ELSE IF strvec.word = "inet6" /\ ~p.LIBIPVS_USE_NL
    THEN Handled(v, [p EXCEPT !.skip_block = TRUE], "IPv6 is not supported by this build")
    ELSE Handled([v EXCEPT !.af = IF strvec.word = "inet" THEN AF_INET ELSE AF_INET6],
                 p, "")

ip_family_handler(v, p, strvec) ==
    IF strvec.word \notin {"inet", "inet6"}
    THEN Handled(v, p, "unknown address family")
    ELSE IF strvec.word = "inet6" /\ ~p.LIBIPVS_USE_NL
    THEN Handled(v, [p EXCEPT !.skip_block = TRUE], "IPv6 is not supported by this build")
    ELSE Bind(IF strvec.word = "inet" THEN AF_INET ELSE AF_INET6, LAMBDA af :
            IF v.af # AF_UNSPEC /\ af # v.af
            THEN Handled(v, p, "family conflicts with server family")
            ELSE Handled([v EXCEPT !.af = af], p, ""))

\* read_unsigned_strvec: the word is a number within min .. max
read_unsigned_strvec(strvec, min, max) ==
    strvec.number /\ min <= strvec.value /\ strvec.value <= max

\* while (!(haddr & 1)) haddr = (haddr >> 1) | 0x80000000;
RECURSIVE FillFromTop(_)
FillFromTop(haddr) ==
    IF haddr % 2 = 1 THEN haddr
    ELSE FillFromTop(BitOr(haddr \div 2, 2 ^ (AddrBits - 1)))

pgr_handler(v, p, strvec) ==
    Bind(IF v.af # AF_UNSPEC THEN v.af
         ELSE IF strvec.dot THEN AF_INET ELSE AF_INET6, LAMBDA af :
        IF af = AF_INET6 /\ ~read_unsigned_strvec(strvec, 1, MaxGranularity6)
        THEN Handled(v, p, "Invalid IPv6 persistence_granularity")
        ELSE IF af # AF_INET6 /\ ~strvec.aton
        THEN Handled(v, p, "Invalid IPv4 persistence_granularity")
        ELSE IF af # AF_INET6 /\ FillFromTop(ntohl(strvec.s_addr)) # MaxAddr
        THEN Handled(v, p, "netmask is not solid")
        ELSE Handled([af |-> IF v.af = AF_UNSPEC THEN af ELSE v.af,
                      persistence_granularity |->
                          IF af = AF_INET6 THEN strvec.value ELSE strvec.s_addr,
                      persistence_timeout |->
                          IF v.persistence_timeout = 0 THEN IPVS_SVC_PERSISTENT_TIMEOUT
                          ELSE v.persistence_timeout],
                     p, ""))

----------------------------------------------------------------------------
(* State: the set (hash_netportnet_create fixes its family and variant) and *)
(* the log of the operations completed so far, oldest first.                *)
(* lcore[c] is the packet-path Test execution context c is in: where it is *)
(* in hash_netportnet_test, and its locals.                                *)
VARIABLES set, log, lcore, vs, parser

vars == <<set, log, lcore, vs, parser>>

\* a network field of a request, addresses in host order; cidr 0: no prefix given
Net(min, max, cidr) == [min |-> min, max |-> max, cidr |-> cidr]

\* struct ipset_param of an AF_INET request
Param4(op, family, n1, n2, proto, ports, nomatch, flag, comment) ==
    [opcode |-> op, family |-> family,
     cidr |-> n1.cidr, min_addr |-> U4(n1.min), max_addr |-> U4(n1.max),
     cidr2 |-> n2.cidr, min_addr2 |-> U4(n2.min), max_addr2 |-> U4(n2.max),
     proto |-> proto, min_port |-> ports[1], max_port |-> ports[2],
     nomatch |-> nomatch, flag |-> flag, comment |-> comment]

\* struct ipset_param of an AF_INET6 request
Param6(op, family, n1, n2, proto, ports, nomatch, flag, comment) ==
    [opcode |-> op, family |-> family,
     cidr |-> n1.cidr, min_addr |-> U6(n1.min), max_addr |-> U6(n1.max),
     cidr2 |-> n2.cidr, min_addr2 |-> U6(n2.min), max_addr2 |-> U6(n2.max),
     proto |-> proto, min_port |-> ports[1], max_port |-> ports[2],
     nomatch |-> nomatch, flag |-> flag, comment |-> comment]

Ops == {IPSET_OP_ADD, IPSET_OP_DEL, IPSET_OP_TEST}

\* the address range ending at the last address, in one block and in several
Nets1 ==
    {Net(MaxAddr - 1, MaxAddr, 0), Net(MaxAddr, MaxAddr, 0), Net(1, MaxAddr, 0)}

\* a range of two blocks
Nets2 == {Net(1, 2, 0)}

\* one port, two ports, every port
PortRanges == {<<2, 2>>, <<1, 2>>, <<0, MaxPort>>}

Comment(nomatch) == IF nomatch THEN "deny" ELSE "allow"

Params4 ==
    {Param4(op, AF_INET, n1, n2, 0, ports, nomatch, flag, Comment(nomatch))
        : op \in {IPSET_OP_ADD, IPSET_OP_DEL}, n1 \in Nets1, n2 \in Nets2,
          ports \in PortRanges, nomatch \in BOOLEAN, flag \in BOOLEAN}
    \cup
    {Param4(op, AF_INET, n1, Net(0, 0, 0), MaxProto, <<2, 2>>, FALSE, FALSE, "")
        : op \in {IPSET_OP_ADD, IPSET_OP_TEST}, n1 \in Nets1}

\* the last IPv6 address
LastAddr6 == Addr6Space - 1

Nets6 ==
    {Net(LastAddr6, LastAddr6, 0), Net(LastAddr6 - 1, LastAddr6, 0),
     Net(LastAddr6, LastAddr6, Addr6Bits), Net(LastAddr6, LastAddr6, Addr6Bits - 1)}

Params6 ==
    {Param6(op, AF_INET6, n1, Net(0, 0, 0), 0, ports, nomatch, flag, Comment(nomatch))
        : op \in {IPSET_OP_ADD, IPSET_OP_DEL}, n1 \in Nets6,
          ports \in {<<2, 2>>, <<1, 2>>}, nomatch \in BOOLEAN, flag \in BOOLEAN}
    \cup
    {Param6(IPSET_OP_TEST, AF_INET6, n1, Net(0, 0, 0), 0, <<2, 2>>, FALSE, FALSE, "")
        : n1 \in Nets6}

\* requests of the family the set does not have
Mismatch4 ==
    {Param4(op, AF_INET, Net(MaxAddr, MaxAddr, 0), Net(1, 2, 0), 0, <<2, 2>>,
            FALSE, FALSE, "") : op \in Ops}

Mismatch6 ==
    {Param6(op, AF_INET6, Net(LastAddr6, LastAddr6, 0), Net(0, 0, 0), 0,
            <<2, 2>>, FALSE, FALSE, "") : op \in Ops}

(* struct ipset_test_param: the packet's header descriptor and the two      *)
(* 16-bit values after the network header, NULL when the packet is too     *)
(* short to hold them                                                       *)
NULL == <<>>

Packets ==
    [af : {AF_INET}, saddr : {U4(MaxAddr)}, daddr : {U4(1)},
     proto : 0 .. MaxProto, ports : {<<htons(2), 0>>, NULL}]
    \cup
    [af : {AF_INET6}, saddr : {U6(LastAddr6), U6(LastAddr6 - 1)}, daddr : {U6(RestSpace)},
     proto : 0 .. MaxProto, ports : {<<htons(2), 0>>, NULL}]

\* an execution context outside hash_netportnet_test
Idle ==
    [pc |-> "idle",
     p |-> [af |-> AF_INET, saddr |-> ZeroAddr, daddr |-> ZeroAddr, proto |-> 0,
            ports |-> NULL],
     e |-> ZeroElem, ports |-> NULL, ret |-> "", seen |-> <<>>]

Init ==
    /\ set \in [family : {AF_INET, AF_INET6}, comment : BOOLEAN, elems : {<<>>}]
    /\ log = <<>>
    /\ lcore = [c \in 1 .. NumLcores |-> Idle]
    /\ vs = alloc_vs(AF_UNSPEC)
    /\ parser = [LIBIPVS_USE_NL |-> TRUE, skip_block |-> FALSE]

\* the control plane is one actor: it issues a request when the last returned
CanRequest ==
    /\ Len(log) < MaxReqs
    /\ \A i \in 1 .. Len(log) : log[i].ret # NO_RETURN

Record(kind, param, ret, nops) ==
    [kind |-> kind, param |-> param, ret |-> ret, nops |-> nops,
     before |-> set.elems]

\* a control-plane request to an AF_INET set (variant4)
Adt4 ==
    /\ CanRequest
    /\ set.family = AF_INET
    /\ \E param \in Params4 \cup Mismatch6 :
       \E run \in {hash_netportnet_adt4(param.opcode, set, param)} :
           /\ set' = [set EXCEPT !.elems = run.elems]
           /\ log' = Append(log, Record("adt", param, run.ret, run.nops))
           /\ UNCHANGED <<lcore, vs, parser>>

\* a control-plane request to an AF_INET6 set (variant6)
Adt6 ==
    /\ CanRequest
    /\ set.family = AF_INET6
    /\ \E param \in Params6 \cup Mismatch4 :
       \E run \in {hash_netportnet_adt6(param.opcode, set, param)} :
           /\ set' = [set EXCEPT !.elems = run.elems]
           /\ log' = Append(log, Record("adt", param, run.ret, run.nops))
           /\ UNCHANGED <<lcore, vs, parser>>

SIGSEGV == "SIGSEGV"

(* ports[0] read through the pointer mbuf_header_pointer returned.  A NULL *)
(* pointer makes the read undefined: the process faults, or the read       *)
(* yields some 16-bit value.                                                *)
TestOutcomes(p) ==
    IF p.ports # NULL THEN {hash_netportnet_test(set, p)}
    ELSE {SIGSEGV} \cup
         {hash_netportnet_test(set, [p EXCEPT !.ports = <<v, 0>>]) : v \in 0 .. MaxPort}

\* a packet classified against the set (either variant)
Test ==
    /\ Len(log) < MaxReqs
    /\ \E p \in Packets :
       \E ret \in TestOutcomes(p) :
           log' = Append(log, Record("test", p, ret, 1))
    /\ UNCHANGED <<set, lcore, vs, parser>>

Next == Adt4 \/ Adt6 \/ Test

Spec == Init /\ [][Next]_vars

----------------------------------------------------------------------------
(* hash_netportnet_test run by several execution contexts at once, one    *)
(* statement a step, on a set the control plane has finished loading.      *)

AllIdle == \A c \in 1 .. NumLcores : lcore[c].pc = "idle"

ConcLoads4 ==
    {Param4(IPSET_OP_ADD, AF_INET, Net(MaxAddr, MaxAddr, 0), Net(1, 2, 0), 0, <<2, 2>>,
            nomatch, FALSE, "") : nomatch \in BOOLEAN}

ConcLoads6 ==
    {Param6(IPSET_OP_ADD, AF_INET6, Net(LastAddr6, LastAddr6, Addr6Bits), Net(0, 0, 0),
            0, <<2, 2>>, nomatch, FALSE, "") : nomatch \in BOOLEAN}

ConcPackets ==
    [af : {AF_INET}, saddr : {U4(MaxAddr), U4(0)}, daddr : {U4(1)},
     proto : {0}, ports : {<<htons(2), 0>>}]
    \cup
    [af : {AF_INET6}, saddr : {U6(LastAddr6), U6(LastAddr6 - 1)}, daddr : {U6(RestSpace)},
     proto : {0}, ports : {<<htons(2), 0>>}]

\* the control plane loads the set before any Test runs
ConcLoad4 ==
    /\ AllIdle /\ log = <<>>
    /\ set.family = AF_INET
    /\ \E param \in ConcLoads4 :
       \E run \in {hash_netportnet_adt4(param.opcode, set, param)} :
           /\ set' = [set EXCEPT !.elems = run.elems]
           /\ log' = Append(log, Record("adt", param, run.ret, run.nops))
           /\ UNCHANGED <<lcore, vs, parser>>

ConcLoad6 ==
    /\ AllIdle /\ log = <<>>
    /\ set.family = AF_INET6
    /\ \E param \in ConcLoads6 :
       \E run \in {hash_netportnet_adt6(param.opcode, set, param)} :
           /\ set' = [set EXCEPT !.elems = run.elems]
           /\ log' = Append(log, Record("adt", param, run.ret, run.nops))
           /\ UNCHANGED <<lcore, vs, parser>>

\* a write to the probe shared by the contexts (static elem_t e)
StoreLocal_static(lc, c, field, v) ==
    [d \in DOMAIN lc |-> [lc[d] EXCEPT !.e[field] = v]]

\* a write to a field of context c's probe (elem_t e, on c's stack)
StoreLocal(lc, c, field, v) == [lc EXCEPT ![c].e[field] = v]

\* context c moves to the statement at pc
Goto(lc, c, pc) == [lc EXCEPT ![c].pc = pc]

\* entry with packet p, and memset(&e, 0, sizeof(e))
TestEnter(c) ==
    /\ lcore[c].pc = "idle"
    /\ \E p \in ConcPackets :
          lcore' = [lcore EXCEPT ![c] = [Idle EXCEPT !.pc = "l151", !.p = p,
                                                   !.seen = set.elems]]
    /\ UNCHANGED <<set, log, vs, parser>>

\* ports = mbuf_header_pointer(p->mbuf, iph->len, sizeof(_ports), _ports);
TestPorts(c) ==
    /\ lcore[c].pc = "l151"
    /\ lcore' = [Goto(lcore, c, "l153") EXCEPT ![c].ports = lcore[c].p.ports]
    /\ UNCHANGED <<set, log, vs, parser>>

\* e.ip1 = iph->saddr;
TestIp1(c) ==
    /\ lcore[c].pc = "l153"
    /\ lcore' = Goto(StoreLocal(lcore, c, "ip1", lcore[c].p.saddr), c, "l154")
    /\ UNCHANGED <<set, log, vs, parser>>

\* e.ip2 = iph->daddr;
TestIp2(c) ==
    /\ lcore[c].pc = "l154"
    /\ lcore' = Goto(StoreLocal(lcore, c, "ip2", lcore[c].p.daddr), c, "l155")
    /\ UNCHANGED <<set, log, vs, parser>>

\* e.port = ports[0];
TestPort(c) ==
    /\ lcore[c].pc = "l155"
    /\ lcore[c].ports # NULL
    /\ lcore' = Goto(StoreLocal(lcore, c, "port", lcore[c].ports[1]), c, "l157")
    /\ UNCHANGED <<set, log, vs, parser>>

\* return set->type->adtfn[IPSET_OP_TEST](set, &e, 0);
TestLookup(c) ==
    /\ lcore[c].pc = "l157"
    /\ \E r \in {adtfn(IPSET_OP_TEST, set, lcore[c].e, FALSE)} :
          /\ set' = [set EXCEPT !.elems = r.elems]
          /\ lcore' = [Goto(lcore, c, "done") EXCEPT ![c].ret = r.ret]
    /\ UNCHANGED <<log, vs, parser>>

\* the next statement of context c
Advance(c) ==
    TestPorts(c) \/ TestIp1(c) \/ TestIp2(c) \/ TestPort(c) \/ TestLookup(c)

ConcNext ==
    \/ ConcLoad4
    \/ ConcLoad6
    \/ \E c \in 1 .. NumLcores : TestEnter(c) \/ Advance(c)

ConcSpec == Init /\ [][ConcNext]_vars

----------------------------------------------------------------------------
(* The type's compare and hash callbacks applied once to a pair of         *)
(* elements, as the hash core applies them to a probe and a stored element.*)

\* half of the IPv4 address space: an address aligned at prefix length 1
HalfAddr == 2 ^ (AddrBits - 1)

KeyElems ==
    [ip1 : {U4(0), U4(HalfAddr)}, cidr1 : {1, AddrBits},
     ip2 : {U4(0), U4(HalfAddr)}, cidr2 : {1, AddrBits},
     proto : {0, MaxProto}, port : {htons(1), htons(2)},
     comment : {"", "deny"}, nomatch : BOOLEAN]

\* set->hash_len
hash_len == "offsetof(elem_t, comment)"

\* the masks of a table of 2^k buckets
TableMasks == {2 ^ k - 1 : k \in {1, HashBits - 1, HashBits}}

Callbacks ==
    /\ log = <<>>
    /\ set.family = AF_INET
    /\ \E elem1 \in KeyElems, elem2 \in KeyElems, mask \in TableMasks :
          log' = Append(log,
                        Record("callbacks",
                               [elem1 |-> elem1, elem2 |-> elem2, mask |-> mask],
                               hash_netportnet_data_equal(elem1, elem2),
                               <<hash_netportnet_hashkey4(elem1, hash_len, mask),
                                 hash_netportnet_hashkey4(elem2, hash_len, mask)>>))
    /\ UNCHANGED <<set, lcore, vs, parser>>

KeyNext == Callbacks

KeySpec == Init /\ [][KeyNext]_vars

----------------------------------------------------------------------------
(* One request to the set as created, over every address range and every   *)
(* port range.                                                              *)

AllNets4 ==
    {Net(a, b, 0) : a \in 0 .. MaxAddr, b \in 0 .. MaxAddr}
        \cup {Net(a, a, k) : a \in 0 .. MaxAddr, k \in 1 .. AddrBits}

AllPortRanges == {<<p, q>> : p \in 0 .. MaxPort, q \in 0 .. MaxPort}

WideParams4 ==
    {Param4(IPSET_OP_ADD, AF_INET, n1, n2, 0, <<2, 2>>, FALSE, flag, "")
        : n1 \in AllNets4, n2 \in AllNets4, flag \in BOOLEAN}
    \cup
    {Param4(op, AF_INET, Net(1, 1, 0), Net(0, 1, 0), MaxProto, ports, nomatch, flag, "")
        : op \in {IPSET_OP_ADD, IPSET_OP_DEL}, ports \in AllPortRanges,
          nomatch \in BOOLEAN, flag \in BOOLEAN}
    \cup
    {Param4(IPSET_OP_ADD, AF_INET, n1, n2, 0, <<1, 2>>, FALSE, FALSE, "")
        : n1 \in AllNets4, n2 \in {Net(1, 2, 0), Net(1, 1, 1)}}

WideAdt4 ==
    /\ log = <<>>
    /\ set.family = AF_INET
    /\ \E param \in WideParams4 :
       \E run \in {hash_netportnet_adt4(param.opcode, set, param)} :
           /\ set' = [set EXCEPT !.elems = run.elems]
           /\ log' = Append(log, Record("adt", param, run.ret, run.nops))
           /\ UNCHANGED <<lcore, vs, parser>>

WideParams6 ==
    {Param6(op, AF_INET6, n1, Net(0, 0, 0), 0, ports, FALSE, flag, "")
        : op \in {IPSET_OP_ADD, IPSET_OP_DEL}, n1 \in Nets6,
          ports \in AllPortRanges, flag \in BOOLEAN}

WideAdt6 ==
    /\ log = <<>>
    /\ set.family = AF_INET6
    /\ \E param \in WideParams6 :
       \E run \in {hash_netportnet_adt6(param.opcode, set, param)} :
           /\ set' = [set EXCEPT !.elems = run.elems]
           /\ log' = Append(log, Record("adt", param, run.ret, run.nops))
           /\ UNCHANGED <<lcore, vs, parser>>

WideNext == WideAdt4 \/ WideAdt6

WideSpec == Init /\ [][WideNext]_vars

----------------------------------------------------------------------------
(* One virtual_server block of a configuration file: vs_handler has made   *)
(* the virtual server, and the block's ip_family and                       *)
(* persistence_granularity keywords come in any order.                     *)

MaxKeywords == 3

FamilyWords == {[word |-> w] : w \in {"inet", "inet6", "ipx"}}

\* a netmask in dotted form
Netmask(s_addr) ==
    [word |-> "netmask", dot |-> TRUE, number |-> FALSE, value |-> 0,
     aton |-> TRUE, s_addr |-> s_addr]

\* a decimal number, which inet_aton takes as an address when it fits
Number(n) ==
    [word |-> "number", dot |-> FALSE, number |-> TRUE, value |-> n,
     aton |-> n <= MaxAddr, s_addr |-> IF n <= MaxAddr THEN htonl(n) ELSE 0]

\* neither a number nor an address
Garbage(dot) ==
    [word |-> "garbage", dot |-> dot, number |-> FALSE, value |-> 0,
     aton |-> FALSE, s_addr |-> 0]

GranularityWords ==
    {Netmask(a) : a \in 0 .. MaxAddr}
        \cup {Number(n) : n \in {0, 1, MaxGranularity6, MaxGranularity6 + 1}}
        \cup {Garbage(dot) : dot \in BOOLEAN}

ParserInit ==
    /\ set = [family |-> AF_INET, comment |-> FALSE, elems |-> <<>>]
    /\ log = <<>>
    /\ lcore = [c \in 1 .. NumLcores |-> Idle]
    /\ vs \in {alloc_vs(af) : af \in {AF_UNSPEC, AF_INET, AF_INET6}}
    /\ parser \in [LIBIPVS_USE_NL : BOOLEAN, skip_block : {FALSE}]

\* the parser hands the block's next keyword to its handler
CanParse == Len(log) < MaxKeywords /\ ~parser.skip_block

Parsed(kind, strvec, run) ==
    /\ vs' = run.vs
    /\ parser' = run.parser
    /\ log' = Append(log, [kind |-> kind, param |-> strvec, ret |-> run.report,
                           before |-> vs, after |-> run.vs])
    /\ UNCHANGED <<set, lcore>>

IpFamily ==
    /\ CanParse
    /\ \E strvec \in FamilyWords :
       \E run \in {ip_family_handler(vs, parser, strvec)} :
           Parsed("ip_family", strvec, run)

PersistenceGranularity ==
    /\ CanParse
    /\ \E strvec \in GranularityWords :
       \E run \in {pgr_handler(vs, parser, strvec)} :
           Parsed("persistence_granularity", strvec, run)

ParserNext == IpFamily \/ PersistenceGranularity

ParserSpec == ParserInit /\ [][ParserNext]_vars

----------------------------------------------------------------------------
(* Vocabulary of the properties *)

\* the stored elements after the i-th logged operation
After(i) == IF i = Len(log) THEN set.elems ELSE log[i + 1].before

\* the i-th logged operation is a control-plane request with one of these opcodes
IsAdt(i, ops) == log[i].kind = "adt" /\ log[i].param.opcode \in ops

IsError(ret) == ret \in {EDPVS_INVAL, EDPVS_EXIST, EDPVS_NOTEXIST}

Keys(elems) == {KeyRegion(elems[i]) : i \in 1 .. Len(elems)}

\* no two stored records have the same key region
UniqueKeys(elems) == Cardinality(Keys(elems)) = Len(elems)

\* the set as it was when it held these elements
SetWith(elems) == [set EXCEPT !.elems = elems]

Addrs4 == 0 .. MaxAddr
Addrs6 == 0 .. Addr6Space - 1
Ports == 0 .. MaxPort

\* the addresses a network field of an AF_INET request names
NetRange4(cidr, min, max) ==
    IF cidr # 0
    THEN {a \in Addrs4 : MaskTo(a, cidr, AddrBits) = MaskTo(ntohl(min.in), cidr, AddrBits)}
    ELSE {a \in Addrs4 : ntohl(min.in) <= a /\ a <= ntohl(max.in)}

\* the addresses a network field of an AF_INET6 request names: the block of
\* the prefix, or the one address given
NetRange6(cidr, min) ==
    IF cidr # 0
    THEN {a \in Addrs6 : MaskTo(a, cidr, Addr6Bits) = MaskTo(In6(min), cidr, Addr6Bits)}
    ELSE {In6(min)}

\* the points (source, destination, port) a request names
Points(param) ==
    IF param.family = AF_INET
    THEN NetRange4(param.cidr, param.min_addr, param.max_addr)
            \X NetRange4(param.cidr2, param.min_addr2, param.max_addr2)
            \X (param.min_port .. param.max_port)
    ELSE NetRange6(param.cidr, param.min_addr)
            \X NetRange6(param.cidr2, param.min_addr2)
            \X (param.min_port .. param.max_port)

AllPoints(family) ==
    IF family = AF_INET THEN Addrs4 \X Addrs4 \X Ports ELSE Addrs6 \X Addrs6 \X Ports

\* the control-plane Test of one point against the set s
ControlTest(s, pt, proto) ==
    IF s.family = AF_INET
    THEN hash_netportnet_adt4(IPSET_OP_TEST, s,
             Param4(IPSET_OP_TEST, AF_INET, Net(pt[1], pt[1], 0), Net(pt[2], pt[2], 0),
                    proto, <<pt[3], pt[3]>>, FALSE, FALSE, "")).ret
    ELSE hash_netportnet_adt6(IPSET_OP_TEST, s,
             Param6(IPSET_OP_TEST, AF_INET6, Net(pt[1], pt[1], 0), Net(pt[2], pt[2], 0),
                    proto, <<pt[3], pt[3]>>, FALSE, FALSE, "")).ret

\* the packet of the set's family with these addresses, protocol and port
PacketAt(family, pt, proto) ==
    [af |-> family,
     saddr |-> IF family = AF_INET THEN U4(pt[1]) ELSE U6(pt[1]),
     daddr |-> IF family = AF_INET THEN U4(pt[2]) ELSE U6(pt[2]),
     proto |-> proto, ports |-> <<htons(pt[3]), 0>>]

\* the packet-path Test of one point against the set s
PacketTest(s, pt, proto) == hash_netportnet_test(s, PacketAt(s.family, pt, proto))

----------------------------------------------------------------------------
(* C1: every Add or Delete request that returns an error leaves the stored *)
(* elements exactly as they were before the request, also when the error   *)
(* comes from the element operation of a later element of the expansion.   *)
C1_AllOrNothing ==
    \A i \in 1 .. Len(log) :
        IsAdt(i, {IPSET_OP_ADD, IPSET_OP_DEL}) /\ IsError(log[i].ret)
            => After(i) = log[i].before

(* C2: after an IPv4 Add of ranges R1, R2 as an accept entry into a set    *)
(* with no other entry, the packet-path Test returns ACCEPT at every point *)
(* of R1 x R2 x ports with the requested protocol, and NOT_FOUND at every  *)
(* point with an address or the port outside.                              *)
C2_Coverage ==
    (/\ Len(log) >= 1
     /\ IsAdt(1, {IPSET_OP_ADD})
     /\ log[1].param.family = AF_INET
     /\ set.family = AF_INET
     /\ ~log[1].param.nomatch
     /\ log[1].ret = EDPVS_OK)
    => \A pt \in AllPoints(AF_INET) :
          IF pt \in Points(log[1].param)
          THEN PacketTest(SetWith(After(1)), pt, log[1].param.proto) = ACCEPT
          ELSE \A proto \in 0 .. MaxProto :
                  PacketTest(SetWith(After(1)), pt, proto) = NOT_FOUND

\* the second of two Adds, both successful, stored only new elements: an
\* accept range R, then a Nomatch range S inside R at other prefix lengths
NomatchInside ==
    /\ Len(log) = 2
    /\ set.family = AF_INET
    /\ IsAdt(1, {IPSET_OP_ADD}) /\ IsAdt(2, {IPSET_OP_ADD})
    /\ log[1].ret = EDPVS_OK /\ log[2].ret = EDPVS_OK
    /\ ~log[1].param.nomatch /\ log[2].param.nomatch
    /\ log[1].param.proto = log[2].param.proto
    /\ Points(log[2].param) \subseteq Points(log[1].param)
    /\ Points(log[2].param) # Points(log[1].param)
    /\ Len(set.elems) = Len(log[2].before) + log[2].nops

\* the lookup with the length pairs tried least specific first
ReverseLookup(s, pt, proto) ==
    LookupIn(s,
             [ZeroElem EXCEPT !.ip1 = U4(pt[1]), !.ip2 = U4(pt[2]),
                              !.proto = proto, !.port = htons(pt[3])],
             Reverse(SortPairs(MaskHistogram(s.elems))), NOT_FOUND)

(* C3: after Add of R as an accept entry and Add of a narrower S inside R  *)
(* as Nomatch at other, more specific prefix lengths, Test returns REJECT  *)
(* at every point of S and ACCEPT at every point of R outside S, whichever *)
(* order the prefix lengths are tried in.                                  *)
C3_NomatchPrecedence ==
    NomatchInside
    => \A pt \in Points(log[1].param) :
          LET want == IF pt \in Points(log[2].param) THEN REJECT ELSE ACCEPT
          IN  /\ ControlTest(set, pt, log[1].param.proto) = want
              /\ ReverseLookup(set, pt, log[1].param.proto) = want

\* the Nomatch range sits in a block of R of a shorter prefix, and R has
\* points outside it
C3_Witness ==
    /\ NomatchInside
    /\ \E i \in 1 .. Len(set.elems), k \in 1 .. Len(set.elems) :
          /\ ~set.elems[i].nomatch /\ set.elems[k].nomatch
          /\ set.elems[i].cidr1 < set.elems[k].cidr1
    /\ \E pt \in Points(log[1].param) :
          ControlTest(set, pt, log[1].param.proto) = ACCEPT

\* the (address, prefix length) blocks of the stored elements, per field
StoredBlocks1(elems) ==
    {<<ntohl(elems[i].ip1.in), elems[i].cidr1>> : i \in 1 .. Len(elems)}

StoredBlocks2(elems) ==
    {<<ntohl(elems[i].ip2.in), elems[i].cidr2>> : i \in 1 .. Len(elems)}

\* the addresses of a block
BlockAddrs(b) == {a \in Addrs4 : MaskTo(a, b[2], AddrBits) = b[1]}

\* the blocks are aligned, no two share an address, and they cover from .. to
ExactCover(blocks, from, to) ==
    /\ \A b \in blocks : b[2] \in 0 .. AddrBits /\ MaskTo(b[1], b[2], AddrBits) = b[1]
    /\ \A b \in blocks : \A c \in blocks \ {b} : BlockAddrs(b) \cap BlockAddrs(c) = {}
    /\ UNION {BlockAddrs(b) : b \in blocks} = from .. to

\* one successful IPv4 Add of two valid ranges given without prefix, one port
RangeAdd ==
    /\ Len(log) = 1
    /\ set.family = AF_INET
    /\ IsAdt(1, {IPSET_OP_ADD})
    /\ log[1].param.cidr = 0 /\ log[1].param.cidr2 = 0
    /\ ntohl(log[1].param.min_addr.in) <= ntohl(log[1].param.max_addr.in)
    /\ ntohl(log[1].param.min_addr2.in) <= ntohl(log[1].param.max_addr2.in)
    /\ log[1].param.min_port = log[1].param.max_port

(* C4: for valid IPv4 ranges [from, to] given without prefix, ranges ending *)
(* at the last address included, the blocks the two loops emit are aligned, *)
(* pairwise disjoint and cover exactly [from, to]; every pair of a net1     *)
(* block and a net2 block is emitted once.                                  *)
C4_Decomposition ==
    RangeAdd
    => /\ log[1].ret = EDPVS_OK
       /\ ExactCover(StoredBlocks1(set.elems),
                     ntohl(log[1].param.min_addr.in), ntohl(log[1].param.max_addr.in))
       /\ ExactCover(StoredBlocks2(set.elems),
                     ntohl(log[1].param.min_addr2.in), ntohl(log[1].param.max_addr2.in))
       /\ log[1].nops = Cardinality(StoredBlocks1(set.elems))
                            * Cardinality(StoredBlocks2(set.elems))
       /\ Len(set.elems) = log[1].nops
       /\ UniqueKeys(set.elems)

\* both ranges take several blocks and net1 ends at the last address
C4_Witness ==
    /\ RangeAdd
    /\ ntohl(log[1].param.max_addr.in) = MaxAddr
    /\ Cardinality(StoredBlocks1(set.elems)) >= 2
    /\ Cardinality(StoredBlocks2(set.elems)) >= 2

\* the addresses a stored network field names: the block of its prefix
\* length, an IPv6 field stored without prefix length naming its address
ElemBlock(family, ip, cidr) ==
    IF family = AF_INET
    THEN {a \in Addrs4 : MaskTo(a, cidr, AddrBits) = ntohl(ip.in)}
    ELSE IF cidr = 0 THEN {In6(ip)}
    ELSE {a \in Addrs6 : MaskTo(a, cidr, Addr6Bits) = In6(ip)}

\* the stored element names a point the request names, protocol included
Overlaps(el, param) ==
    /\ el.proto = param.proto
    /\ \E pt \in Points(param) :
          /\ pt[1] \in ElemBlock(param.family, el.ip1, el.cidr1)
          /\ pt[2] \in ElemBlock(param.family, el.ip2, el.cidr2)
          /\ pt[3] = ntohs(el.port)

\* Add(R) came to a set with no entry overlapping R (no stored element
\* names a point of R, and Test finds nothing at any point of R), and
\* Delete(R) with the same parameters followed it
AddThenDelete(i) ==
    /\ IsAdt(i, {IPSET_OP_ADD}) /\ IsAdt(i + 1, {IPSET_OP_DEL})
    /\ log[i + 1].param = [log[i].param EXCEPT !.opcode = IPSET_OP_DEL]
    /\ log[i].param.family = set.family
    /\ \A k \in 1 .. Len(log[i].before) : ~Overlaps(log[i].before[k], log[i].param)
    /\ \A pt \in Points(log[i].param) :
          ControlTest(SetWith(log[i].before), pt, log[i].param.proto) = NOT_FOUND

(* C5: Add(R) into a set with no entry overlapping R, followed by          *)
(* Delete(R) with the same parameters, leaves none of the elements the Add *)
(* stored, and Test at every point of R returns NOT_FOUND.                 *)
C5_Inverse ==
    \A i \in 1 .. Len(log) - 1 :
        AddThenDelete(i)
        => /\ After(i + 1) = log[i].before
           /\ \A pt \in Points(log[i].param) :
                 /\ ControlTest(SetWith(After(i + 1)), pt, log[i].param.proto) = NOT_FOUND
                 /\ PacketTest(SetWith(After(i + 1)), pt, log[i].param.proto) = NOT_FOUND

\* the Add stored several elements, Nomatch ones, and the Delete removed them
C5_Witness ==
    \E i \in 1 .. Len(log) - 1 :
        /\ AddThenDelete(i)
        /\ log[i].param.nomatch
        /\ Len(After(i)) >= Len(log[i].before) + 2
        /\ log[i + 1].ret = EDPVS_OK

(* C6: the same Add request applied twice in a row leaves, after the second*)
(* Add, the stored elements the first Add left (so every Test result is    *)
(* the same), and no two stored elements with one key, whatever the second *)
(* Add returns.                                                             *)
C6_Idempotence ==
    \A i \in 1 .. Len(log) - 1 :
        (/\ IsAdt(i, {IPSET_OP_ADD}) /\ IsAdt(i + 1, {IPSET_OP_ADD})
         /\ log[i + 1].param = log[i].param)
        => /\ After(i + 1) = After(i)
           /\ UniqueKeys(After(i + 1))

\* the same Add twice, the first storing several elements
C6_Witness ==
    \E i \in 1 .. Len(log) - 1 :
        /\ IsAdt(i, {IPSET_OP_ADD}) /\ IsAdt(i + 1, {IPSET_OP_ADD})
        /\ log[i + 1].param = log[i].param
        /\ log[i].param.family = set.family
        /\ Len(After(i)) >= Len(log[i].before) + 2

(* C7: a control-plane operation (Add, Delete or Test) whose family differs*)
(* from the set's returns EDPVS_INVAL without calling an element operation,*)
(* and the stored elements are unchanged.                                   *)
C7_FamilyMismatchFailsFast ==
    \A i \in 1 .. Len(log) :
        IsAdt(i, Ops) /\ log[i].param.family # set.family
            => /\ log[i].ret = EDPVS_INVAL
               /\ log[i].nops = 0
               /\ After(i) = log[i].before

\* an Add of the other family came to a set that already holds elements
C7_Witness ==
    \E i \in 1 .. Len(log) :
        /\ IsAdt(i, {IPSET_OP_ADD})
        /\ log[i].param.family # set.family
        /\ log[i].before # <<>>
        /\ log[i].ret = EDPVS_INVAL

(* C8: a packet-path Test whose packet is of the other family than the set *)
(* fails with a family mismatch and never returns ACCEPT or REJECT; stated *)
(* for the packets long enough to hold their ports, and as the second half *)
(* alone, which the first implies.                                          *)
C8_FamilyIsolation ==
    \A i \in 1 .. Len(log) :
        (/\ log[i].kind = "test"
         /\ log[i].param.af # set.family
         /\ log[i].param.ports # NULL)
        => log[i].ret \notin {ACCEPT, REJECT}

\* a cap an operator could configure: the number of port values
RequestCap == PortSpace

\* the blocks the decomposition of [from, to] has
RECURSIVE Cover(_, _)
Cover(from, to) ==
    IF from > to THEN <<>>
    ELSE Bind(ip_set_range_to_cidr(from, to), LAMBDA c :
             <<[addr |-> from, cidr |-> c.cidr]>> \o Cover(c.last + 1, to))

NetBlocks4(cidr, min, max) ==
    IF cidr # 0 THEN 1 ELSE Len(Cover(ntohl(min.in), ntohl(max.in)))

\* |net1 blocks| x |net2 blocks| x |port values| of a request
ExpansionSize(param) ==
    (IF param.family = AF_INET
     THEN NetBlocks4(param.cidr, param.min_addr, param.max_addr)
            * NetBlocks4(param.cidr2, param.min_addr2, param.max_addr2)
     ELSE 1)
    * Cardinality(param.min_port .. param.max_port)

(* C9: an Add request whose expansion exceeds the per-request cap fails as *)
(* a whole with an error and stores none of its elements.                  *)
C9_PerRequestCap ==
    \A i \in 1 .. Len(log) :
        (/\ IsAdt(i, {IPSET_OP_ADD})
         /\ log[i].param.family = set.family
         /\ ExpansionSize(log[i].param) > RequestCap)
        => IsError(log[i].ret) /\ After(i) = log[i].before

(* C10: an IPv6 Add or Delete request in which a network field carries an  *)
(* address range (max address other than min address) and no prefix length *)
(* fails and leaves the stored elements unchanged.                         *)
C10_Ipv6RangeRejected ==
    \A i \in 1 .. Len(log) :
        (/\ IsAdt(i, {IPSET_OP_ADD, IPSET_OP_DEL})
         /\ set.family = AF_INET6
         /\ log[i].param.family = AF_INET6
         /\ \/ log[i].param.cidr = 0 /\ log[i].param.max_addr # log[i].param.min_addr
            \/ log[i].param.cidr2 = 0 /\ log[i].param.max_addr2 # log[i].param.min_addr2)
        => IsError(log[i].ret) /\ After(i) = log[i].before

\* a network field given without prefix length whose first address is after
\* its last, or a port range whose first port is after its last
InvalidRange(param) ==
    \/ param.cidr = 0 /\ ntohl(param.min_addr.in) > ntohl(param.max_addr.in)
                      /\ param.family = AF_INET
    \/ param.cidr2 = 0 /\ ntohl(param.min_addr2.in) > ntohl(param.max_addr2.in)
                       /\ param.family = AF_INET
    \/ param.min_port > param.max_port

(* C11: an Add or Delete request with from > to in a network field given   *)
(* without prefix, or with min_port > max_port, returns an error and       *)
(* leaves the stored elements unchanged.                                   *)
C11_InvalidRangeRejected ==
    \A i \in 1 .. Len(log) :
        (/\ IsAdt(i, {IPSET_OP_ADD, IPSET_OP_DEL})
         /\ log[i].param.family = set.family
         /\ InvalidRange(log[i].param))
        => IsError(log[i].ret) /\ After(i) = log[i].before

(* C12: a packet-path Test of a packet too short to hold the two 16-bit    *)
(* values after its network header returns NOT_FOUND, without a fault and  *)
(* without a read through the absent pointer.                              *)
C12_ShortPacketNotFound ==
    \A i \in 1 .. Len(log) :
        log[i].kind = "test" /\ log[i].param.ports = NULL
            => log[i].ret = NOT_FOUND /\ After(i) = log[i].before

\* the statements of hash_netportnet_test a context at pc has executed
Executed(pc) ==
    CASE pc = "l151" -> {}
      [] pc = "l153" -> {}
      [] pc = "l154" -> {"ip1"}
      [] pc = "l155" -> {"ip1", "ip2"}
      [] OTHER -> {"ip1", "ip2", "port"}

\* the probe of a context that ran alone up to pc on packet p
ProbeAlone(pc, p) ==
    [ZeroElem EXCEPT !.ip1 = IF "ip1" \in Executed(pc) THEN p.saddr ELSE ZeroAddr,
                     !.ip2 = IF "ip2" \in Executed(pc) THEN p.daddr ELSE ZeroAddr,
                     !.port = IF "port" \in Executed(pc) THEN p.ports[1] ELSE 0]

(* C13: in every interleaving of packet-path Tests of several contexts on  *)
(* one set, each context's probe holds what that context alone wrote, the  *)
(* stored elements stay as each Test found them, a Test that has started   *)
(* can always take its next step, and a finished Test returned what the    *)
(* Test run alone on the set returns.                                      *)
C13_ConcurrentTests ==
    \A c \in 1 .. NumLcores :
        lcore[c].pc # "idle"
        => /\ lcore[c].e = ProbeAlone(lcore[c].pc, lcore[c].p)
           /\ set.elems = lcore[c].seen
           /\ lcore[c].pc # "done" => ENABLED Advance(c)
           /\ lcore[c].pc = "done"
                 => lcore[c].ret = hash_netportnet_test(set, lcore[c].p)

\* two Tests of different packets, one in the middle of building its probe
\* when the other looked up, have finished with different results
C13_Witness ==
    \E c \in 1 .. NumLcores, d \in 1 .. NumLcores :
        /\ c # d
        /\ lcore[c].pc = "done" /\ lcore[d].pc = "done"
        /\ lcore[c].ret = ACCEPT /\ lcore[d].ret = NOT_FOUND
        /\ set.elems # <<>>

\* one successful IPv4 Add, of valid ranges, into the empty set
AddIntoEmpty ==
    /\ Len(log) = 1
    /\ set.family = AF_INET
    /\ IsAdt(1, {IPSET_OP_ADD})
    /\ log[1].before = <<>>
    /\ log[1].ret = EDPVS_OK
    /\ ~InvalidRange(log[1].param)

(* C14: a successful IPv4 Add into the empty set stores |blocks of net1| x *)
(* |blocks of net2| x |port values| elements: every block of net2 with    *)
(* every block of net1, on every port.                                     *)
C14_ElementCount ==
    AddIntoEmpty
    => /\ Len(set.elems) = ExpansionSize(log[1].param)
       /\ log[1].nops = ExpansionSize(log[1].param)
       /\ \A b1 \in StoredBlocks1(set.elems), b2 \in StoredBlocks2(set.elems),
             port \in log[1].param.min_port .. log[1].param.max_port :
             Cardinality({i \in 1 .. Len(set.elems) :
                            /\ ntohl(set.elems[i].ip1.in) = b1[1]
                            /\ set.elems[i].cidr1 = b1[2]
                            /\ ntohl(set.elems[i].ip2.in) = b2[1]
                            /\ set.elems[i].cidr2 = b2[2]
                            /\ ntohs(set.elems[i].port) = port}) = 1

\* several blocks of net1, several of net2, several ports
C14_Witness ==
    /\ AddIntoEmpty
    /\ Cardinality(StoredBlocks1(set.elems)) >= 2
    /\ Cardinality(StoredBlocks2(set.elems)) >= 2
    /\ log[1].param.min_port < log[1].param.max_port

\* the comment and the Nomatch flag an Add request gives its elements
AddOptions(param) ==
    [comment |-> IF set.comment THEN param.comment ELSE "", nomatch |-> param.nomatch]

(* C15: the set never holds two elements with equal key regions; an Add    *)
(* leaves every stored element in its place, either as it was or, under    *)
(* the replace policy only, with the Nomatch flag and comment of the       *)
(* request; an Add without the replace policy that succeeds met no stored  *)
(* key.                                                                     *)
C15_KeyUniqueness ==
    /\ UniqueKeys(set.elems)
    /\ \A i \in 1 .. Len(log) :
          IsAdt(i, {IPSET_OP_ADD}) /\ log[i].param.family = set.family
          => /\ UniqueKeys(After(i))
             /\ Len(After(i)) >= Len(log[i].before)
             /\ \A k \in 1 .. Len(log[i].before) :
                   /\ KeyRegion(After(i)[k]) = KeyRegion(log[i].before[k])
                   /\ \/ After(i)[k] = log[i].before[k]
                      \/ /\ log[i].param.flag
                         /\ After(i)[k].nomatch = AddOptions(log[i].param).nomatch
                         /\ After(i)[k].comment = AddOptions(log[i].param).comment
             /\ ~log[i].param.flag /\ log[i].ret = EDPVS_OK
                   => Len(After(i)) = Len(log[i].before) + log[i].nops

\* an Add under the replace policy turned a stored accept element into a
\* Nomatch element
C15_Witness ==
    \E i \in 1 .. Len(log) :
        /\ IsAdt(i, {IPSET_OP_ADD})
        /\ log[i].param.flag
        /\ \E k \in 1 .. Len(log[i].before) :
              /\ ~log[i].before[k].nomatch
              /\ After(i)[k].nomatch
              /\ KeyRegion(After(i)[k]) = KeyRegion(log[i].before[k])

\* the address of a stored network field is its own prefix block's first
Aligned(family, ip, cidr) ==
    IF family = AF_INET
    THEN MaskTo(ntohl(ip.in), cidr, AddrBits) = ntohl(ip.in) /\ ip.rest = 0
    ELSE MaskTo(In6(ip), cidr, Addr6Bits) = In6(ip)

(* C16: after any sequence of Add and Delete requests, every stored        *)
(* element has address = address & mask(prefix length) in net1 and in net2.*)
C16_CidrAligned ==
    \A k \in 1 .. Len(set.elems) :
        /\ Aligned(set.family, set.elems[k].ip1, set.elems[k].cidr1)
        /\ Aligned(set.family, set.elems[k].ip2, set.elems[k].cidr2)

(* C17: for every port range with min_port <= max_port, the last port      *)
(* value included, an Add or Delete returns, having called the element     *)
(* operation at most once per block pair and port value, and exactly once  *)
(* when it succeeds.                                                       *)
C17_PortExpansion ==
    \A i \in 1 .. Len(log) :
        (/\ IsAdt(i, {IPSET_OP_ADD, IPSET_OP_DEL})
         /\ log[i].param.family = set.family
         /\ ~InvalidRange(log[i].param))
        => /\ log[i].ret # NO_RETURN
           /\ log[i].nops <= ExpansionSize(log[i].param)
           /\ log[i].ret = EDPVS_OK => log[i].nops = ExpansionSize(log[i].param)

\* one IPv4 Add into the empty set, of valid ranges of which one ends at
\* the last address, given directly or by prefix
AddToTheTop ==
    /\ Len(log) = 1
    /\ set.family = AF_INET
    /\ IsAdt(1, {IPSET_OP_ADD})
    /\ ~InvalidRange(log[1].param)
    /\ ~(log[1].param.min_port = 0 /\ log[1].param.max_port = MaxPort)
    /\ \/ MaxAddr \in NetRange4(log[1].param.cidr, log[1].param.min_addr,
                                log[1].param.max_addr)
       \/ MaxAddr \in NetRange4(log[1].param.cidr2, log[1].param.min_addr2,
                                log[1].param.max_addr2)

(* C18: an IPv4 request with a range ending at the last address returns    *)
(* after the last block: it succeeds with one element operation per        *)
(* element of its expansion, and no stored block has an address outside    *)
(* the requested ranges, the address 0 the counter wraps to included.      *)
C18_NoAddressWrap ==
    AddToTheTop
    => /\ log[1].ret = EDPVS_OK
       /\ log[1].nops = ExpansionSize(log[1].param)
       /\ \A k \in 1 .. Len(set.elems) :
             /\ ElemBlock(AF_INET, set.elems[k].ip1, set.elems[k].cidr1)
                   \subseteq NetRange4(log[1].param.cidr, log[1].param.min_addr,
                                       log[1].param.max_addr)
             /\ ElemBlock(AF_INET, set.elems[k].ip2, set.elems[k].cidr2)
                   \subseteq NetRange4(log[1].param.cidr2, log[1].param.min_addr2,
                                       log[1].param.max_addr2)

\* net1 ends at the last address in several blocks and does not hold
\* address 0, net2 ends at the last address by its prefix
C18_Witness ==
    /\ AddToTheTop
    /\ log[1].param.cidr = 0 /\ log[1].param.cidr2 # 0
    /\ ntohl(log[1].param.max_addr.in) = MaxAddr
    /\ ntohl(log[1].param.min_addr.in) > 0
    /\ MaxAddr \in NetRange4(log[1].param.cidr2, log[1].param.min_addr2,
                             log[1].param.max_addr2)
    /\ Cardinality(StoredBlocks1(set.elems)) >= 2

\* the points (source, destination, port) a stored element names
ElemPoints(el) ==
    ElemBlock(set.family, el.ip1, el.cidr1)
        \X ElemBlock(set.family, el.ip2, el.cidr2)
        \X {ntohs(el.port)}

(* C19: the packet-path probe carries the packet's protocol and port.  For *)
(* a stored accept element with aligned addresses, in a set with no        *)
(* Nomatch element, a packet at a point of the element with the element's  *)
(* protocol gets ACCEPT; a packet whose protocol no stored element has     *)
(* matches nothing.                                                         *)
C19_FastPathProtocol ==
    \A k \in 1 .. Len(set.elems) :
        (/\ ~set.elems[k].nomatch
         /\ Aligned(set.family, set.elems[k].ip1, set.elems[k].cidr1)
         /\ Aligned(set.family, set.elems[k].ip2, set.elems[k].cidr2))
        => \A pt \in ElemPoints(set.elems[k]), proto \in 0 .. MaxProto :
              /\ (/\ proto = set.elems[k].proto
                  /\ \A j \in 1 .. Len(set.elems) : ~set.elems[j].nomatch)
                 => PacketTest(set, pt, proto) = ACCEPT
              /\ (\A j \in 1 .. Len(set.elems) : set.elems[j].proto # proto)
                 => PacketTest(set, pt, proto) = NOT_FOUND

\* the key of the element with these blocks, protocol and port
KeyOf(ip1, cidr1, ip2, cidr2, proto, port) ==
    <<ip1, cidr1, ip2, cidr2, proto, htons(port)>>

\* the blocks of a network field of an AF_INET request
Blocks4(cidr, min, max) ==
    IF cidr # 0
    THEN {<<MaskTo(ntohl(min.in), cidr, AddrBits), cidr>>}
    ELSE {<<Cover(ntohl(min.in), ntohl(max.in))[j].addr,
            Cover(ntohl(min.in), ntohl(max.in))[j].cidr>>
            : j \in 1 .. Len(Cover(ntohl(min.in), ntohl(max.in)))}

\* the network field of an AF_INET6 request as it goes into the element
Field6(cidr, min) == IF cidr # 0 THEN ip6_netmask(min, cidr) ELSE min

\* the keys of the elements of a request's expansion
ExpansionKeys(param) ==
    IF param.family = AF_INET
    THEN {KeyOf(U4(b1[1]), b1[2], U4(b2[1]), b2[2], param.proto, port)
            : b1 \in Blocks4(param.cidr, param.min_addr, param.max_addr),
              b2 \in Blocks4(param.cidr2, param.min_addr2, param.max_addr2),
              port \in param.min_port .. param.max_port}
    ELSE {KeyOf(Field6(param.cidr, param.min_addr), param.cidr,
                Field6(param.cidr2, param.min_addr2), param.cidr2, param.proto, port)
            : port \in param.min_port .. param.max_port}

(* C20: after a Delete request, none of the elements of its expansion that *)
(* were stored is stored any more, also when the expansion holds elements  *)
(* that were not stored.                                                   *)
C20_DeleteNonFatal ==
    \A i \in 1 .. Len(log) :
        (/\ IsAdt(i, {IPSET_OP_DEL})
         /\ log[i].param.family = set.family
         /\ ~InvalidRange(log[i].param))
        => \A k \in 1 .. Len(log[i].before) :
              KeyRegion(log[i].before[k]) \in ExpansionKeys(log[i].param)
                  => KeyRegion(log[i].before[k]) \notin Keys(After(i))

\* the two elements agree on net1 address and prefix, net2 address and
\* prefix, protocol and port
SameKeyFields(elem1, elem2) ==
    /\ elem1.ip1 = elem2.ip1 /\ elem1.cidr1 = elem2.cidr1
    /\ elem1.ip2 = elem2.ip2 /\ elem1.cidr2 = elem2.cidr2
    /\ elem1.proto = elem2.proto /\ elem1.port = elem2.port

(* C21: two elements that agree on the key fields compare as equal         *)
(* (EQUAL_REJECT when the second has Nomatch set, else EQUAL_ACCEPT) and   *)
(* have the same IPv4 hash value, whatever their Nomatch and comment; two  *)
(* elements that differ in a key field compare as unequal; every hash      *)
(* value is within the table mask.                                         *)
C21_KeyRegion ==
    \A i \in 1 .. Len(log) :
        log[i].kind = "callbacks"
        => /\ SameKeyFields(log[i].param.elem1, log[i].param.elem2)
                => /\ log[i].ret = IF log[i].param.elem2.nomatch
                                   THEN COMPARE_EQUAL_REJECT ELSE COMPARE_EQUAL_ACCEPT
                   /\ log[i].nops[1] = log[i].nops[2]
           /\ ~SameKeyFields(log[i].param.elem1, log[i].param.elem2)
                => log[i].ret = COMPARE_INEQUAL
           /\ \A k \in 1 .. 2 : BitAnd(log[i].nops[k], log[i].param.mask) = log[i].nops[k]

\* two elements with one key, of different Nomatch and comment, the second
\* with Nomatch set, hashed into a table smaller than the hash word
C21_Witness ==
    \E i \in 1 .. Len(log) :
        /\ log[i].kind = "callbacks"
        /\ SameKeyFields(log[i].param.elem1, log[i].param.elem2)
        /\ ~log[i].param.elem1.nomatch /\ log[i].param.elem2.nomatch
        /\ log[i].param.elem1.comment # log[i].param.elem2.comment
        /\ log[i].param.mask < HashSpace - 1
        /\ log[i].nops[1] > 0

\* the element of a request after memset and the options, before its key
\* fields are set
Probe(elems, param) == WithAddOptions(SetWith(elems), ZeroElem, param)

\* the i-th logged operation is a Delete that returned, for a request of the
\* set's family with ordered ranges
ReturnedDelete(i) ==
    /\ IsAdt(i, {IPSET_OP_DEL})
    /\ log[i].param.family = set.family
    /\ ~InvalidRange(log[i].param)
    /\ log[i].ret # NO_RETURN

(* C22: the element a Delete request probes with has Nomatch unset and an  *)
(* empty comment whatever the request carries, and a Delete whose          *)
(* expansion is stored in full succeeds and removes every stored element   *)
(* with a key of the expansion, accept or Nomatch, and nothing else.       *)
C22_DeleteIgnoresNomatch ==
    \A i \in 1 .. Len(log) :
        ReturnedDelete(i)
        => /\ ~Probe(log[i].before, log[i].param).nomatch
           /\ Probe(log[i].before, log[i].param).comment = ""
           /\ ExpansionKeys(log[i].param) \subseteq Keys(log[i].before)
                => /\ log[i].ret = EDPVS_OK
                   /\ Keys(After(i)) = Keys(log[i].before) \ ExpansionKeys(log[i].param)

\* a Delete that removed a stored Nomatch element carrying a comment
C22_Witness ==
    \E i \in 1 .. Len(log) :
        /\ ReturnedDelete(i)
        /\ log[i].ret = EDPVS_OK
        /\ \E k \in 1 .. Len(log[i].before) :
              /\ log[i].before[k].nomatch
              /\ log[i].before[k].comment # ""
              /\ KeyRegion(log[i].before[k]) \in ExpansionKeys(log[i].param)
              /\ KeyRegion(log[i].before[k]) \notin Keys(After(i))

\* the i-th logged operation is a keyword of the virtual_server block
IsKeyword(i) == log[i].kind \in {"ip_family", "persistence_granularity"}

\* the family an ip_family word names
Named(strvec) == IF strvec.word = "inet" THEN AF_INET ELSE AF_INET6

\* the i-th keyword is an ip_family naming the family the server does not have
NamesOtherFamily(i) ==
    /\ log[i].kind = "ip_family"
    /\ log[i].param.word \in {"inet", "inet6"}
    /\ log[i].before.af # AF_UNSPEC
    /\ Named(log[i].param) # log[i].before.af

\* once vs->af is set no keyword changes it, and an unknown family name
\* leaves it as it is
WriteOnce(i) ==
    /\ log[i].before.af # AF_UNSPEC => log[i].after.af = log[i].before.af
    /\ (log[i].kind = "ip_family" /\ log[i].param.word \notin {"inet", "inet6"})
          => log[i].after.af = log[i].before.af

\* C23 as stated: the address family is write-once, and an ip_family naming
\* the other family is reported as a conflict and changes nothing
C23_AsStated ==
    \A i \in 1 .. Len(log) :
        IsKeyword(i)
        => /\ WriteOnce(i)
           /\ NamesOtherFamily(i)
                => /\ log[i].ret = "family conflicts with server family"
                   /\ log[i].after.af = log[i].before.af

(* C23: once vs->af holds a family no later keyword changes it; an unknown *)
(* family name leaves it unchanged; an ip_family naming the other family   *)
(* leaves it unchanged and is reported, as a conflict, or, for inet6 in a  *)
(* build without LIBIPVS_USE_NL, as IPv6 not being supported.              *)
C23_FamilyWriteOnce ==
    \A i \in 1 .. Len(log) :
        IsKeyword(i)
        => /\ WriteOnce(i)
           /\ NamesOtherFamily(i)
                => /\ log[i].after.af = log[i].before.af
                   /\ log[i].ret =
                        IF log[i].param.word = "inet6" /\ ~parser.LIBIPVS_USE_NL
                        THEN "IPv6 is not supported by this build"
                        ELSE "family conflicts with server family"

\* persistence_granularity set the family of a server that had none, and an
\* ip_family naming the other family came after it and was refused
C23_Witness ==
    \E i \in 1 .. Len(log), j \in 1 .. Len(log) :
        /\ i < j
        /\ log[i].kind = "persistence_granularity"
        /\ log[i].before.af = AF_UNSPEC /\ log[i].after.af # AF_UNSPEC
        /\ NamesOtherFamily(j)
        /\ log[j].ret = "family conflicts with server family"
        /\ vs.af = log[i].after.af

====
